---- MODULE Spec2Model ----
(***************************************************************************)
(* Model of the MovieSentiments data collection pipeline:                  *)
(*   nlpwebapp/data_collection/top_100_movie_reviews.py                    *)
(*       get_responses (batch fetch with one retry), generate_df           *)
(*   nlpwebapp/data_collection/RottenTomatoesScraper/scraper.py            *)
(*       RottenTomatoesScraper (page extraction, calculate_score)          *)
(*                                                                         *)
(* Python exceptions are values [ok |-> FALSE, exc |-> class, msg |-> text].*)
(* A score is held in units of 0.5 (the Python float f + 0.5*h is exact    *)
(* for these small counts), so 2*f + h stands for f + 0.5*h.               *)
(***************************************************************************)
EXTENDS Integers, Sequences, FiniteSets, TLC

\* ------------------------------------------------------------------ bounds
MaxChildren == 3
MaxReviews == 3
MaxTitleLen == 10
MaxUrls == 3

\* ------------------------------------------------------- program constants
\* title_dirty[:-8]
TitleSuffixLen == 8
\* grequests.map(reqs, size=10, ...)
PoolSize == 10
\* response.status_code == 403
Forbidden == 403

\* ----------------------------------------------------------------- helpers
Range(s) == {s[i] : i \in 1..Len(s)}

SeqsUpTo(S, n) == UNION {[1..k -> S] : k \in 0..n}

Ok(v) == [ok |-> TRUE, val |-> v]

Raise(e, m) == [ok |-> FALSE, exc |-> e, msg |-> m]

\* ------------------------------------------------------------ the documents
\* A node of the parsed page: isTag is isinstance(node, bs4.element.Tag),
\* class is the value of its class attribute (<<>>: the attribute is absent),
\* children are its direct children, each with its own class list and the
\* class names of the markers nested below it.
Marker(c) == [class |-> <<c>>, nested |-> <<>>]

Wrapper(c) == [class |-> <<"wrapper">>, nested |-> <<c>>]

ChildKinds ==
    { Marker("star-display__filled"), Marker("star-display__half"),
      Marker("star-display__empty"), Wrapper("star-display__filled") }

ClassLists ==
    { <<>>, <<"star-display">>, <<"big", "star-display">>,
      <<"audience-reviews__review">> }

Nodes ==
    [isTag : BOOLEAN, class : ClassLists, children : SeqsUpTo(ChildKinds, MaxChildren)]

\* star_display.find_all(class_=c, recursive=False): the direct children
\* carrying class c.
find_all_direct(node, c) ==
    SelectSeq(node.children, LAMBDA ch : c \in Range(ch.class))

\* RottenTomatoesScraper.calculate_score
calculate_score(star_display) ==
    IF ~star_display.isTag
    THEN Raise("TypeError", "Input must be of type bs4.element.Tag")
    ELSE IF star_display.class = <<>>
    THEN Raise("KeyError", "class")
    ELSE IF ~(star_display.class[1] = "star-display")
    THEN Raise("TypeError", "Tag must be of class 'star-display'")
    ELSE LET full_star_count == Len(find_all_direct(star_display, "star-display__filled"))
             half_star_count == Len(find_all_direct(star_display, "star-display__half"))
         IN  Ok(2 * full_star_count + half_star_count)

\* soup.find_all(class_="star-display"): every tag whose class list holds
\* "star-display", in document order.
IsStarDisplay(node) == node.isTag /\ "star-display" \in Range(node.class)

\* RottenTomatoesScraper.extract_review_scores: the list comprehension
\* raises the first exception calculate_score raises.
extract_review_scores(doc) ==
    LET star_displays == SelectSeq(doc.nodes, IsStarDisplay)
        scores == [i \in 1..Len(star_displays) |-> calculate_score(star_displays[i])]
        bad == {i \in 1..Len(star_displays) : ~scores[i].ok}
    IN  IF star_displays = <<>>
        THEN Raise("AttributeError", "No star-display tags were found in the content.")
        ELSE IF bad # {}
        THEN scores[CHOOSE i \in bad : \A j \in bad : i <= j]
        ELSE Ok([i \in 1..Len(star_displays) |-> scores[i].val])

\* RottenTomatoesScraper.extract_review_text
extract_review_text(doc) ==
    LET reviews == doc.reviews
    IN  IF reviews = <<>>
        THEN Raise("AttributeError", "No review text was found in the content.")
        ELSE Ok([i \in 1..Len(reviews) |-> reviews[i]])

\* title_dirty[:-8]
StripSuffix(s) ==
    IF Len(s) > TitleSuffixLen THEN SubSeq(s, 1, Len(s) - TitleSuffixLen) ELSE <<>>

\* RottenTomatoesScraper.extract_movie_title: soup.find returns None when
\* the page has no h2.panel-heading, and None.text raises.
extract_movie_title(doc) ==
    IF ~doc.title.present
    THEN Raise("AttributeError", "'NoneType' object has no attribute 'text'")
    ELSE LET title_dirty == doc.title.text
         IN  IF title_dirty = <<>>
             THEN Raise("AttributeError", "No movie title was found in the content.")
             ELSE Ok(StripSuffix(title_dirty))

\* RottenTomatoesScraper.__init__: scores, then text, then title, then the
\* title once per score.
ScraperInit(doc) ==
    LET s == extract_review_scores(doc)
        t == extract_review_text(doc)
        h == extract_movie_title(doc)
    IN  IF ~s.ok THEN s
        ELSE IF ~t.ok THEN t
        ELSE IF ~h.ok THEN h
        ELSE Ok([review_scores |-> s.val,
                 review_text |-> t.val,
                 title |-> h.val,
                 titles |-> [i \in 1..Len(s.val) |-> h.val]])

\* ------------------------------------------------------------------- state
VARIABLES
    node, score,
    doc, epc, self, eerr,
    urls, headers, retry, pc, sent, inflight, slot, done, responses, idx,
    time, outcome, batches, first403,
    k, titles, review_text, review_scores, closed, df

scoreVars == <<node, score>>

extractVars == <<doc, epc, self, eerr>>

fetchVars ==
    <<urls, headers, retry, pc, sent, inflight, slot, done, responses, idx,
      time, outcome, batches, first403>>

dfVars == <<k, titles, review_text, review_scores, closed, df>>

vars == <<scoreVars, extractVars, fetchVars, dfVars>>

\* No value yet (a result not produced, an exception not raised).
Unset == [ok |-> FALSE, exc |-> "", msg |-> ""]

\* ------------------------------------------------- calculate_score, alone
ScoreIdle == node = [isTag |-> FALSE, class |-> <<>>, children |-> <<>>] /\ score = Unset

\* A call calculate_score(node) on any node of the page.
CalcScore ==
    /\ score = Unset
    /\ score' = calculate_score(node)
    /\ UNCHANGED <<node, extractVars, fetchVars, dfVars>>

\* --------------------------------------- RottenTomatoesScraper(content)
\* The nodes a page's class selectors meet: two well-formed star displays,
\* a star display whose class list starts with another class, and a node
\* that is no star display.
Star(f, h) ==
    [isTag |-> TRUE, class |-> <<"star-display">>,
     children |-> [i \in 1..(f + h) |->
                     IF i <= f THEN Marker("star-display__filled")
                     ELSE Marker("star-display__half")]]

PageNodes ==
    { Star(2, 0), Star(1, 1),
      [isTag |-> TRUE, class |-> <<"big", "star-display">>, children |-> <<>>],
      [isTag |-> TRUE, class |-> <<"audience-reviews__item">>, children |-> <<>>] }

\* The text of a node is the sequence of its characters; character i of a
\* text of length n is written i.
Text(n) == [i \in 1..n |-> i]

\* soup.find_all("p", class_="audience-reviews__review") of a page with n
\* review paragraphs: the text of paragraph i is written i.
Reviews(n) == [i \in 1..n |-> i]

Titles ==
    {[present |-> FALSE, text |-> <<>>]}
        \cup {[present |-> TRUE, text |-> Text(n)] : n \in 0..MaxTitleLen}

Docs ==
    [title : Titles,
     nodes : SeqsUpTo(PageNodes, MaxReviews),
     reviews : {Reviews(n) : n \in 0..MaxReviews}]

EmptyDoc == [title |-> [present |-> FALSE, text |-> <<>>], nodes |-> <<>>, reviews |-> <<>>]

ExtractIdle == doc = EmptyDoc /\ epc = "idle" /\ self = <<>> /\ eerr = Unset

\* self.<attr> = <r>, or the exception r leaves __init__.
SetAttr(attr, r, next) ==
    IF r.ok
    THEN /\ self' = (attr :> r.val) @@ self
         /\ epc' = next
         /\ eerr' = eerr
    ELSE /\ self' = self
         /\ epc' = "raised"
         /\ eerr' = r

\* self.review_scores = self.extract_review_scores(soup)
InitScores ==
    /\ epc = "review_scores"
    /\ SetAttr("review_scores", extract_review_scores(doc), "review_text")
    /\ UNCHANGED <<doc, scoreVars, fetchVars, dfVars>>

\* self.review_text = self.extract_review_text(soup)
InitText ==
    /\ epc = "review_text"
    /\ SetAttr("review_text", extract_review_text(doc), "title")
    /\ UNCHANGED <<doc, scoreVars, fetchVars, dfVars>>

\* self.title = self.extract_movie_title(soup)
InitTitle ==
    /\ epc = "title"
    /\ SetAttr("title", extract_movie_title(doc), "titles")
    /\ UNCHANGED <<doc, scoreVars, fetchVars, dfVars>>

\* self.titles = [self.title for review in self.review_scores]
InitTitles ==
    /\ epc = "titles"
    /\ SetAttr("titles", Ok([i \in 1..Len(self.review_scores) |-> self.title]), "done")
    /\ UNCHANGED <<doc, scoreVars, fetchVars, dfVars>>

\* ------------------------------------------------------------ get_responses
safari_header == "safari_header"

firefox_header == "firefox_header"

\* What a caller may pass as headers: nothing, an empty dict, one of the two
\* module profiles, or a dict of its own.
HeaderArgs == {"None", "{}", safari_header, firefox_header, "custom_header"}

\* `not headers`
Falsy(h) == h \in {"None", "{}"}

\* grequests.map puts None where a request raised and the handler (which
\* prints) returned None.
NoneResp == [none |-> TRUE]

IsNone(r) == r.none

Response(u, h, status, content, elapsed) ==
    [none |-> FALSE, url |-> u, headers |-> h, status_code |-> status,
     content |-> content, elapsed |-> elapsed]

\* Pages a server may answer with. A review page of movie u: u title
\* characters before the 8 character suffix, two star displays, two reviews.
GoodDoc(u) ==
    [title |-> [present |-> TRUE, text |-> Text(u + TitleSuffixLen)],
     nodes |-> <<Star(2, 0), Star(1, 1)>>,
     reviews |-> Reviews(2)]

\* The same page with one review paragraph missing.
MisalignedDoc(u) == [GoodDoc(u) EXCEPT !.reviews = Reviews(1)]

\* What one request may come to: a transport failure, a block, a review
\* page, a review page with a paragraph missing, an error page without
\* reviews.
Answers(u, h) ==
    { NoneResp,
      Response(u, h, Forbidden, EmptyDoc, 0),
      Response(u, h, 200, GoodDoc(u), 1),
      Response(u, h, 200, MisalignedDoc(u), 1),
      Response(u, h, 404, EmptyDoc, 0) }

Pending == [none |-> FALSE, url |-> 0, headers |-> "", status_code |-> 0,
            content |-> EmptyDoc, elapsed |-> 0]

N == Len(urls)

FetchInit ==
    /\ urls \in {[i \in 1..n |-> i] : n \in 0..MaxUrls}
    /\ headers \in HeaderArgs
    /\ retry = FALSE
    /\ pc = "call"
    /\ sent = 0
    /\ inflight = {}
    /\ slot = <<>>
    /\ done = <<>>
    /\ responses = <<>>
    /\ idx = 0
    /\ time = 0
    /\ outcome = Unset
    /\ batches = <<>>
    /\ first403 = FALSE

FetchIdle ==
    /\ urls = <<>> /\ headers = "None" /\ retry = FALSE /\ pc = "idle"
    /\ sent = 0 /\ inflight = {} /\ slot = <<>> /\ done = <<>>
    /\ responses = <<>> /\ idx = 0 /\ time = 0 /\ outcome = Unset
    /\ batches = <<>> /\ first403 = FALSE

\* The frame's first lines: the default profile, the request generator, the
\* entry into grequests.map. batches records the profile of every batch
\* issued.
Enter ==
    /\ pc = "call"
    /\ headers' = IF Falsy(headers) THEN safari_header ELSE headers
    /\ batches' = Append(batches, headers')
    /\ sent' = 0
    /\ inflight' = {}
    /\ slot' = [i \in 1..N |-> Pending]
    /\ done' = <<>>
    /\ pc' = "map"
    /\ UNCHANGED <<urls, retry, responses, idx, time, outcome, first403>>
    /\ UNCHANGED <<scoreVars, extractVars, dfVars>>

\* grequests.map sends the requests in list order; the pool admits at most
\* size of them at a time.
Send ==
    /\ pc = "map"
    /\ sent < N
    /\ Cardinality(inflight) < PoolSize
    /\ sent' = sent + 1
    /\ inflight' = inflight \cup {sent + 1}
    /\ UNCHANGED <<urls, headers, retry, pc, slot, done, responses, idx, time,
                   outcome, batches, first403>>
    /\ UNCHANGED <<scoreVars, extractVars, dfVars>>

\* A request in flight resolves, in any order, to a response or an
\* exception; the result is kept on the request object.
Complete(i) ==
    /\ pc = "map"
    /\ i \in inflight
    /\ \E a \in Answers(urls[i], headers) : slot' = [slot EXCEPT ![i] = a]
    /\ inflight' = inflight \ {i}
    /\ done' = Append(done, i)
    /\ UNCHANGED <<urls, headers, retry, pc, sent, responses, idx, time,
                   outcome, batches, first403>>
    /\ UNCHANGED <<scoreVars, extractVars, dfVars>>

\* The list grequests.map would build by appending each result as it
\* completes.
MapResultByCompletion == [j \in 1..Len(done) |-> slot[done[j]]]

\* The list grequests.map returns: one entry per request, in request order.
MapResult == [i \in 1..N |-> slot[i]]

\* grequests.map returns once every request is resolved; the scan starts.
MapReturn ==
    /\ pc = "map"
    /\ sent = N
    /\ inflight = {}
    /\ responses' = MapResult
    /\ time' = 0
    /\ idx' = 1
    /\ pc' = "scan"
    /\ first403' = IF retry THEN first403
                   ELSE \E i \in 1..N : ~IsNone(slot[i]) /\ slot[i].status_code = Forbidden
    /\ UNCHANGED <<urls, headers, retry, sent, inflight, slot, done, outcome, batches>>
    /\ UNCHANGED <<scoreVars, extractVars, dfVars>>

\* One iteration of `for response in responses`. The recursive call
\* get_responses(urls, firefox_header, retry=True) is a tail call: its
\* result or exception is the caller's, and it starts with locals of its
\* own (the caller's responses and time are not read again).
Scan ==
    /\ pc = "scan"
    /\ idx <= Len(responses)
    /\ LET response == responses[idx]
       IN  IF IsNone(response)
           THEN /\ outcome' = Raise("AttributeError",
                                    "'NoneType' object has no attribute 'elapsed'")
                /\ pc' = "raised"
                /\ UNCHANGED <<headers, retry, idx, time, responses>>
           ELSE IF response.status_code = Forbidden
                   THEN IF ~retry
                        THEN /\ headers' = firefox_header
                             /\ retry' = TRUE
                             /\ pc' = "call"
                             /\ responses' = <<>>
                             /\ idx' = 0
                             /\ time' = 0
                             /\ UNCHANGED outcome
                        ELSE /\ time' = time + response.elapsed
                             /\ outcome' = Raise("HTTPError",
                                  "Received 403 error again: check size, headers, and URL's")
                             /\ pc' = "raised"
                             /\ UNCHANGED <<headers, retry, idx, responses>>
                   ELSE /\ time' = time + response.elapsed
                        /\ idx' = idx + 1
                        /\ UNCHANGED <<headers, retry, pc, outcome, responses>>
    /\ UNCHANGED <<urls, sent, inflight, slot, done, batches, first403>>
    /\ UNCHANGED <<scoreVars, extractVars, dfVars>>

\* After the loop: `if not responses` raises, else the list is returned.
Finish ==
    /\ pc = "scan"
    /\ idx > Len(responses)
    /\ IF responses = <<>>
       THEN /\ outcome' = Raise("AttributeError", "No responses were recieved")
            /\ pc' = "raised"
       ELSE /\ outcome' = Ok(responses)
            /\ pc' = "returned"
    /\ UNCHANGED <<urls, headers, retry, sent, inflight, slot, done, responses,
                   idx, time, batches, first403>>
    /\ UNCHANGED <<scoreVars, extractVars, dfVars>>

\* -------------------------------------------------------------- generate_df
DfInit ==
    /\ k = 0 /\ titles = <<>> /\ review_text = <<>> /\ review_scores = <<>>
    /\ closed = {} /\ df = Unset

\* The driver hands the returned responses to generate_df, which starts
\* with three empty lists.
DfEnter ==
    /\ pc = "returned"
    /\ pc' = "assemble"
    /\ k' = 1
    /\ titles' = <<>>
    /\ review_text' = <<>>
    /\ review_scores' = <<>>
    /\ UNCHANGED <<closed, df>>
    /\ UNCHANGED <<urls, headers, retry, sent, inflight, slot, done, responses,
                   idx, time, outcome, batches, first403>>
    /\ UNCHANGED <<scoreVars, extractVars>>

\* One iteration of `for response in responses`: the scraper is built from
\* the page, its three lists extend the three columns, the response is
\* closed. An exception of the scraper leaves generate_df.
AssemblePage ==
    /\ pc = "assemble"
    /\ k <= Len(responses)
    /\ LET movie_data == ScraperInit(responses[k].content)
       IN  IF movie_data.ok
           THEN /\ titles' = titles \o movie_data.val.titles
                /\ review_text' = review_text \o movie_data.val.review_text
                /\ review_scores' = review_scores \o movie_data.val.review_scores
                /\ closed' = closed \cup {k}
                /\ k' = k + 1
                /\ UNCHANGED <<pc, df>>
           ELSE /\ df' = movie_data
                /\ pc' = "df_raised"
                /\ UNCHANGED <<k, titles, review_text, review_scores, closed>>
    /\ UNCHANGED <<urls, headers, retry, sent, inflight, slot, done, responses,
                   idx, time, outcome, batches, first403>>
    /\ UNCHANGED <<scoreVars, extractVars>>

\* pd.DataFrame.from_dict(data) refuses columns of different lengths.
from_dict(data) ==
    IF Len(data.Title) = Len(data.ReviewText) /\ Len(data.ReviewText) = Len(data.ReviewScore)
    THEN Ok(data)
    ELSE Raise("ValueError", "All arrays must be of the same length")

\* After the loop the frame is built from the three columns and returned.
BuildFrame ==
    /\ pc = "assemble"
    /\ k > Len(responses)
    /\ df' = from_dict([Title |-> titles, ReviewText |-> review_text,
                        ReviewScore |-> review_scores])
    /\ pc' = IF df'.ok THEN "df_done" ELSE "df_raised"
    /\ UNCHANGED <<k, titles, review_text, review_scores, closed>>
    /\ UNCHANGED <<urls, headers, retry, sent, inflight, slot, done, responses,
                   idx, time, outcome, batches, first403>>
    /\ UNCHANGED <<scoreVars, extractVars>>

\* --------------------------------------------------------- specifications
\* The driver: get_responses(urls, headers), then generate_df(responses).
Init == ScoreIdle /\ ExtractIdle /\ FetchInit /\ DfInit

Next ==
    \/ Enter
    \/ Send
    \/ \E i \in 1..MaxUrls : Complete(i)
    \/ MapReturn
    \/ Scan
    \/ Finish
    \/ DfEnter
    \/ AssemblePage
    \/ BuildFrame

Spec == Init /\ [][Next]_vars

\* RottenTomatoesScraper(content) on every page of Docs.
InitExtract ==
    /\ ScoreIdle /\ FetchIdle /\ DfInit
    /\ doc \in Docs /\ epc = "review_scores" /\ self = <<>> /\ eerr = Unset

NextExtract == InitScores \/ InitText \/ InitTitle \/ InitTitles

SpecExtract == InitExtract /\ [][NextExtract]_vars

\* calculate_score(node) on every node of Nodes.
InitScore ==
    /\ ExtractIdle /\ FetchIdle /\ DfInit
    /\ node \in Nodes /\ score = Unset

NextScore == CalcScore

SpecScore == InitScore /\ [][NextScore]_vars

\* ------------------------------------------------------------------ claims
Has403(rs) == \E i \in 1..Len(rs) : ~IsNone(rs[i]) /\ rs[i].status_code = Forbidden

HasNone(rs) == \E i \in 1..Len(rs) : IsNone(rs[i])

AllNone(rs) == \A i \in 1..Len(rs) : IsNone(rs[i])

\* get_responses has returned or raised.
Ended == outcome # Unset

BlockedError == Raise("HTTPError", "Received 403 error again: check size, headers, and URL's")

EmptyResultError == Raise("AttributeError", "No responses were recieved")

IsPrefix(s, t) == Len(s) <= Len(t) /\ SubSeq(t, 1, Len(s)) = s

\* C1: when get_responses has ended, the batch was issued at most twice; it
\* was issued a second time, under the alternate profile, exactly when
\* attempt 1 held a 403; and a 403 on attempt 2 ended the call with
\* BlockedError.
C1_RetryOnce ==
    Ended =>
        /\ Len(batches) <= 2
        /\ first403 => (Len(batches) = 2 /\ batches[2] = firefox_header)
        /\ ~first403 => Len(batches) = 1
        /\ (Len(batches) = 2 /\ Has403(responses)) => outcome = BlockedError

\* C2: a batch in which some request failed at transport level, some
\* request got a response and no response is a 403 is returned, one entry
\* per URL.
C2_FailureIsolation ==
    (Ended /\ HasNone(responses) /\ ~AllNone(responses) /\ ~Has403(responses)) =>
        (outcome.ok /\ Len(outcome.val) = N)

\* The rows of the pages of rs whose extraction succeeds, in order.
RECURSIVE RowsOf(_, _)
RowsOf(rs, col) ==
    IF rs = <<>> THEN <<>>
    ELSE LET m == ScraperInit(Head(rs).content)
         IN  (IF m.ok THEN m.val[col] ELSE <<>>) \o RowsOf(Tail(rs), col)

\* C3: generate_df always ends with a Dataset, which holds exactly the rows
\* of the pages whose extraction succeeded, in order.
C3_AssemblerIsolation ==
    pc \in {"df_done", "df_raised"} =>
        /\ df.ok
        /\ df.val.Title = RowsOf(responses, "titles")
        /\ df.val.ReviewText = RowsOf(responses, "review_text")
        /\ df.val.ReviewScore = RowsOf(responses, "review_scores")

\* C5: every step of generate_df leaves the three columns of equal length,
\* only appends to them, and adds the same number of entries to each.
C5_ColumnInvariant ==
    [][ /\ Len(titles') = Len(review_text')
        /\ Len(review_text') = Len(review_scores')
        /\ IsPrefix(titles, titles')
        /\ IsPrefix(review_text, review_text')
        /\ IsPrefix(review_scores, review_scores')
        /\ Len(titles') - Len(titles) = Len(review_text') - Len(review_text)
        /\ Len(titles') - Len(titles) = Len(review_scores') - Len(review_scores)
      ]_vars

\* C6: the sequence get_responses returns has one entry per URL, and entry i
\* is the response to the request for URL i made under the profile of the
\* last batch issued, whatever the order in which the requests completed.
C6_IndexAligned ==
    outcome.ok =>
        /\ Len(outcome.val) = N
        /\ \A i \in 1..N :
              /\ ~IsNone(outcome.val[i])
              /\ outcome.val[i].url = urls[i]
              /\ outcome.val[i].headers = batches[Len(batches)]

\* A returned retry batch of two or more URLs whose requests completed in
\* another order than they were sent.
C6_Witness ==
    /\ outcome.ok
    /\ retry
    /\ N >= 2
    /\ \E j \in 1..Len(done) : done[j] # j

\* C7: a call whose result collection is empty (no URL, or every request
\* failed at transport level) ends with EmptyResultError.
C7_EmptyBatchFatal ==
    (Ended /\ AllNone(responses)) => outcome = EmptyResultError

\* C9: a second batch is issued under another profile than the first, and a
\* returned sequence then holds only results of the second batch.
C9_RetryProfileDiffers ==
    Len(batches) = 2 =>
        /\ batches[2] # batches[1]
        /\ outcome.ok => \A i \in 1..N : outcome.val[i].headers = batches[2]

\* The rating widgets and the review texts of a page, as its selectors find
\* them.
Widgets(d) == SelectSeq(d.nodes, IsStarDisplay)

Misaligned(d) ==
    /\ Len(Widgets(d)) > 0
    /\ Len(d.reviews) > 0
    /\ Len(Widgets(d)) # Len(d.reviews)

AlignedReviewsError == Raise("NotFoundError", "No aligned reviews was/were found in page.")

MovieTitleError == Raise("AttributeError", "No movie title was found in the content.")

\* C4: the extraction of a page whose scores, texts and title are each
\* found, with another number of rating widgets than of review texts, ends
\* with NotFoundError("aligned reviews") and leaves no result.
C4_MisalignmentRejected ==
    ( /\ epc \in {"done", "raised"}
      /\ Misaligned(doc)
      /\ extract_review_scores(doc).ok
      /\ extract_movie_title(doc).ok ) =>
        (epc = "raised" /\ eerr = AlignedReviewsError)

\* C10: on a page with a rating widget and a review text, a title read by
\* the extractor is never empty, and a page whose title node is absent, or
\* empty once the 8 character suffix is stripped, ends the extraction with
\* NotFoundError("movie title").
C10_TitlePresence ==
    /\ "title" \in DOMAIN self => self.title # <<>>
    /\ ( /\ epc \in {"done", "raised"}
         /\ extract_review_scores(doc).ok
         /\ extract_review_text(doc).ok
         /\ (~doc.title.present \/ StripSuffix(doc.title.text) = <<>>) ) =>
           (epc = "raised" /\ eerr = MovieTitleError)

\* The direct children of node n that are exactly a marker of class c.
CountMarkers(n, c) == Cardinality({i \in 1..Len(n.children) : n.children[i].class = <<c>>})

\* C8: calculate_score of a rating widget with f filled and h half markers
\* as direct children is f + 0.5h (2f + h in halves); of any other node it
\* raises TypeError, the code's InvalidInputError.
C8_ScoreResult ==
    score # Unset =>
        IF IsStarDisplay(node)
        THEN score = Ok(2 * CountMarkers(node, "star-display__filled")
                          + CountMarkers(node, "star-display__half"))
        ELSE ~score.ok /\ score.exc = "TypeError"

====
